---- MODULE Spec2Model ----
(***************************************************************************)
(* Model of battery-stat.py: ingestion of the upower charge history,       *)
(* the compressed timeline, the slider/radio/reset handlers of BatteryStat *)
(* and the trend statistics of BatteryStat.analyze.                         *)
(*                                                                          *)
(* Units: timestamps are integer seconds; slider values and the            *)
(* min/max history are integer tenths of an hour (one tenth = 360 s), so   *)
(* that the 0.1 hour correction of update is the integer 1; charge is an   *)
(* integer percentage.  Quotients (rate, life, remaining) are kept as      *)
(* exact fractions <<numerator, denominator>>.                              *)
(***************************************************************************)
EXTENDS Integers, Sequences, FiniteSets, TLC

VARIABLES
    pc,                 \* position of the script: start, loaded, error, zip, zipped, built, show, crashed
    error,              \* name of the exception raised last, or "none"
    raw,                \* the split lines of the history file: <<timestamp, charge, status>>
    data_sheet,         \* module-level data_sheet
    timeline,           \* module-level timeline
    charge_data,        \* module-level charge_data
    current_charge,     \* module-level current_charge
    timeline_zipped,    \* module-level timeline_zipped
    idx,                \* loop variable of the compression loop
    slider_history_max, \* value of the 'From' slider (tenths of an hour)
    slider_history_min, \* value of the 'To' slider (tenths of an hour)
    stat,               \* the BatteryStat object: compress, relative, plot_range, timeline, charge_data
    title,              \* what _set_title showed last
    trend_line,         \* whether _plot_trend drew on the cleared axes
    clock,              \* timestamp_now()
    event,              \* the user interaction handled last, with the bounds it requested
    log                 \* calls made while handling that interaction

vars == <<pc, error, raw, data_sheet, timeline, charge_data, current_charge,
          timeline_zipped, idx, slider_history_max, slider_history_min,
          stat, title, trend_line, clock, event, log>>

-----------------------------------------------------------------------------
(* Program constants *)

BATTERY_MAX_CHARGE == 85
PLOT_RANGE == 360
DEFAULT_HISTORY_MIN == 0
DEFAULT_HISTORY_MAX == 120
AN_HOUR == 3600
MAX_GAP == 720
MIN_WINDOW == 1
TENTH == 360

(* Bounds of the model *)

MaxLines == 2
MaxLen == 3
MaxTicks == 1

T0 == 100000
Gaps == {0, 18000}
Charges == {40, 50}
Status == {"charging", "discharging", "unknown"}
KnownStatus == {"charging", "discharging", "fully-charged"}
DragVals == {-360, -120, -2, 0}
Labels == {"Compressed", "Relative", "Absolute"}

None == <<>>
NoStat == [compress |-> TRUE, relative |-> TRUE, plot_range |-> <<0, 0>>,
           timeline |-> <<>>, charge_data |-> <<>>]
NoEvent == [kind |-> "none", value |-> 0]

-----------------------------------------------------------------------------
(* Ingestion, lines 71-82 *)

Column(sheet, k) == [i \in 1..Len(sheet) |-> sheet[i][k]]

\* lines 72-77: each row is rebuilt from its first two fields only
ParseRow(line) == <<line[1], line[2]>>

ParseSheet(lines) == [i \in 1..Len(lines) |-> ParseRow(lines[i])]

\* line 80: line[2] is the third field of a row; it raises IndexError on a
\* row that has fewer than three fields
FilterRaises(sheet) == \E i \in 1..Len(sheet) : Len(sheet[i]) < 3

FilterUnknown(sheet) == SelectSeq(sheet, LAMBDA line : line[3] # "unknown")

\* line 81: unpacking tuple(zip(*data_sheet))[:2] into two names raises
\* ValueError when the sheet is empty
UnzipRaises(sheet) == sheet = <<>>

Load ==
    /\ pc = "start"
    /\ LET parsed == ParseSheet(raw) IN
       IF FilterRaises(parsed)
       THEN /\ pc' = "error"
            /\ error' = "IndexError"
            /\ data_sheet' = parsed
            /\ UNCHANGED <<timeline, charge_data, current_charge>>
       ELSE LET kept == FilterUnknown(parsed) IN
            IF UnzipRaises(kept)
            THEN /\ pc' = "error"
                 /\ error' = "ValueError"
                 /\ data_sheet' = kept
                 /\ UNCHANGED <<timeline, charge_data, current_charge>>
            ELSE /\ pc' = "loaded"
                 /\ error' = "none"
                 /\ data_sheet' = kept
                 /\ timeline' = Column(kept, 1)
                 /\ charge_data' = Column(kept, 2)
                 /\ current_charge' = kept[Len(kept)][2]
    /\ UNCHANGED <<raw, timeline_zipped, idx, slider_history_max,
                   slider_history_min, stat, title, trend_line, clock,
                   event, log>>

SeqsUpTo(S, n) == UNION {[1..k -> S] : k \in 0..n}

RawLine == {<<T0, c, s>> : c \in Charges, s \in Status}
           \cup {<<T0 + 360, c, s>> : c \in Charges, s \in Status}

InitLoad ==
    /\ pc = "start"
    /\ error = "none"
    /\ raw \in SeqsUpTo(RawLine, MaxLines)
    /\ data_sheet = <<>>
    /\ timeline = <<>>
    /\ charge_data = <<>>
    /\ current_charge = None
    /\ timeline_zipped = <<>>
    /\ idx = 0
    /\ slider_history_max = -DEFAULT_HISTORY_MAX
    /\ slider_history_min = DEFAULT_HISTORY_MIN
    /\ stat = NoStat
    /\ title = [kind |-> "cleared", rate |-> None, life |-> None,
               full |-> None, left |-> None]
    /\ trend_line = FALSE
    /\ clock = 0
    /\ event = NoEvent
    /\ log = <<>>

NextLoad == Load

SpecLoad == InitLoad /\ [][NextLoad]_vars

-----------------------------------------------------------------------------
(* Compressed timeline, lines 84-93 *)

\* variants of the loop body used to test the sensitivity of the properties
ZipIter_ShiftThrough(tz, i) ==
    LET delta == tz[i] - tz[i - 1] IN
    IF delta > MAX_GAP
    THEN [k \in 1..Len(tz) |-> IF k <= i THEN tz[k] + delta - MAX_GAP ELSE tz[k]]
    ELSE tz

ZipIter_ShiftShort(tz, i) ==
    LET delta == tz[i] - tz[i - 1] IN
    IF delta > MAX_GAP
    THEN [k \in 1..Len(tz) |-> IF k < i - 1 THEN tz[k] + delta - MAX_GAP ELSE tz[k]]
    ELSE tz

\* one iteration of the loop body, lines 88-93
ZipIter(tz, i) ==
    LET delta == tz[i] - tz[i - 1] IN
    IF delta > MAX_GAP
    THEN [k \in 1..Len(tz) |-> IF k < i THEN tz[k] + delta - MAX_GAP ELSE tz[k]]
    ELSE tz

\* the whole loop, for idx in range(1, len(timeline_zipped)); Python index
\* idx is position idx + 1 here
RECURSIVE ZipFrom(_, _)
ZipFrom(tz, i) == IF i > Len(tz) THEN tz ELSE ZipFrom(ZipIter(tz, i), i + 1)

Zip(t) == ZipFrom(t, 2)

ZipStep ==
    /\ pc = "zip"
    /\ IF idx <= Len(timeline_zipped)
       THEN /\ timeline_zipped' = ZipIter(timeline_zipped, idx)
            /\ idx' = idx + 1
            /\ pc' = IF idx + 1 > Len(timeline_zipped) THEN "zipped" ELSE "zip"
       ELSE /\ pc' = "zipped"
            /\ UNCHANGED <<timeline_zipped, idx>>
    /\ UNCHANGED <<error, raw, data_sheet, timeline, charge_data,
                   current_charge, slider_history_max, slider_history_min,
                   stat, title, trend_line, clock, event, log>>

\* non-decreasing timelines of a given length, built from their gaps
TimelineOf(gaps) ==
    [i \in 1..(Len(gaps) + 1) |->
        T0 + (LET RECURSIVE S(_)
                  S(k) == IF k = 0 THEN 0 ELSE gaps[k] + S(k - 1)
              IN S(i - 1))]

ZipGaps == {0, 360, 720, 721, 18000}

Timelines(n) == {TimelineOf(g) : g \in SeqsUpTo(ZipGaps, n - 1)}

InitZip ==
    /\ pc = "zip"
    /\ error = "none"
    /\ raw = <<>>
    /\ data_sheet = <<>>
    /\ timeline \in Timelines(MaxLen + 1)
    /\ charge_data = <<>>
    /\ current_charge = None
    /\ timeline_zipped = timeline
    /\ idx = 2
    /\ slider_history_max = -DEFAULT_HISTORY_MAX
    /\ slider_history_min = DEFAULT_HISTORY_MIN
    /\ stat = NoStat
    /\ title = [kind |-> "cleared", rate |-> None, life |-> None,
               full |-> None, left |-> None]
    /\ trend_line = FALSE
    /\ clock = 0
    /\ event = NoEvent
    /\ log = <<>>

NextZip == ZipStep

SpecZip == InitZip /\ [][NextZip]_vars

-----------------------------------------------------------------------------
(* BatteryStat, lines 217-387 *)

(* The handlers are evaluated on a record w that bundles what they read    *)
(* and write: the two slider values (smax, smin), the fields of the        *)
(* BatteryStat object, the title and trend line on the axes, the outcome   *)
(* of the last analyze call (error, raised), and the log of calls with the *)
(* depth of nesting of update.                                              *)

Entry(op, depth, a, b, c) == [op |-> op, depth |-> depth, a |-> a, b |-> b, c |-> c]

Log(w, op) == [w EXCEPT !.log = Append(@, Entry(op, w.depth, 0, 0, 0))]

ClearedTitle == [kind |-> "cleared", rate |-> None, life |-> None,
                 full |-> None, left |-> None]
Placeholder == [kind |-> "placeholder", rate |-> None, life |-> None,
                full |-> None, left |-> None]

Abs(x) == IF x < 0 THEN -x ELSE x

Last(q) == q[Len(q)]

NoOptions == [given |-> FALSE, compress |-> TRUE, relative |-> TRUE]
Options(c, r) == [given |-> TRUE, compress |-> c, relative |-> r]

\* lines 270-278: the samples of timeline_local inside [t_start, t_end]
Inside(timeline_local, t_start, t_end) ==
    SelectSeq([i \in 1..Len(timeline_local) |-> i],
              LAMBDA i : t_start <= timeline_local[i] /\ timeline_local[i] <= t_end)

\* lines 231-278
Format(w, options, min_history, max_history, now_clock) ==
    LET compress == IF options.given THEN options.compress ELSE w.compress
        relative == IF options.given THEN options.relative ELSE w.relative
        timeline_local == IF compress THEN timeline_zipped ELSE timeline
        now == IF compress THEN Last(timeline_local) ELSE now_clock
        t_end == now - min_history * TENTH
        t_start == now - max_history * TENTH
        keep == Inside(timeline_local, t_start, t_end)
    IN [w EXCEPT
          !.title = ClearedTitle,
          !.trend_line = FALSE,
          !.compress = compress,
          !.relative = relative,
          !.plot_range = <<t_start, t_end>>,
          !.timeline = [k \in 1..Len(keep) |-> timeline_local[keep[k]]],
          !.charge_data = [k \in 1..Len(keep) |-> charge_data[keep[k]]],
          !.log = Append(@, Entry("format", w.depth, t_start, t_end, now))]

\* line 283, first operand
TooFew_AtMostOne(tl) == Len(tl) <= 1

TooFew(tl) == Len(tl) <= 2

\* lines 283-287, second operand: charge_data is neither non-decreasing nor
\* non-increasing
NotMonotonic(cd) ==
    /\ ~ \A k \in 1..(Len(cd) - 1) : cd[k] <= cd[k + 1]
    /\ ~ \A k \in 1..(Len(cd) - 1) : cd[k] >= cd[k + 1]

\* line 302: status = data_sheet[-1][-1]; the first two fields of a row are
\* numbers, which no string equals
StatusIs(s) ==
    LET row == Last(data_sheet) IN Len(row) >= 3 /\ Last(row) = s

\* lines 280-320; a division by zero raises ZeroDivisionError
Analyze(w) ==
    LET tl == w.timeline
        cd == w.charge_data
        w0 == Log(w, "analyze")
    IN IF TooFew(tl) \/ NotMonotonic(cd)
       THEN [w0 EXCEPT !.title = Placeholder, !.error = "none", !.raised = FALSE]
       ELSE LET dt == Last(tl) - tl[1]          \* t_range = dt / AN_HOUR
                dc == Last(cd) - cd[1]          \* rate = dc / t_range
            IN IF dt = 0 \/ dc = 0
               THEN [w0 EXCEPT !.error = "ZeroDivisionError", !.raised = TRUE]
               ELSE LET den == AN_HOUR * Abs(dc)
                        left == IF StatusIs("discharging")
                                THEN <<current_charge * dt, den>>
                                ELSE IF StatusIs("charging")
                                THEN <<(BATTERY_MAX_CHARGE - current_charge) * dt, den>>
                                ELSE None
                    IN [w0 EXCEPT
                          !.title = [kind |-> "stats",
                                     rate |-> <<dc * AN_HOUR, dt>>,
                                     life |-> <<BATTERY_MAX_CHARGE * dt, den>>,
                                     full |-> <<100 * dt, den>>,
                                     left |-> left],
                          !.trend_line = TRUE,
                          !.error = "none",
                          !.raised = FALSE]

\* lines 341-351; ticks_format and scatter are the rendering
Graph(w) ==
    LET w1 == Analyze(w) IN
    IF w1.raised THEN w1 ELSE Log(w1, "render")

\* line 356
NeedsCorrection_Strict(min_history, max_history) == min_history > max_history

NeedsCorrection(min_history, max_history) == min_history >= max_history

\* line 357
Corrected_Wider(min_history) == min_history + 2 * MIN_WINDOW

Corrected(min_history) == min_history + MIN_WINDOW

\* lines 362-376; a slider passes its value, which equals no label
OptionsOf(value) ==
    IF value = "Absolute" THEN Options(FALSE, FALSE)
    ELSE IF value = "Relative" THEN Options(FALSE, TRUE)
    ELSE IF value = "Compressed" THEN Options(TRUE, TRUE)
    ELSE NoOptions

\* lines 353-383.  Slider.set_val stores the value and calls the slider's
\* on_changed callbacks, here update, before it returns; an exception
\* raised by a callback is reported by the callback registry and the
\* caller goes on.
RECURSIVE Update(_, _, _)

SetValMax(w, val, now_clock) ==
    LET w1 == Update([w EXCEPT !.smax = val, !.depth = @ + 1], "value", now_clock)
    IN [w1 EXCEPT !.depth = w.depth, !.raised = FALSE]

SetValMin(w, val, now_clock) ==
    LET w1 == Update([w EXCEPT !.smin = val, !.depth = @ + 1], "value", now_clock)
    IN [w1 EXCEPT !.depth = w.depth, !.raised = FALSE]

\* variant of update that formats before it moves the slider
Update_FormatFirst(w, value, now_clock) ==
    LET min_history == -w.smin
        max_history == -w.smax
        w0 == [w EXCEPT !.log = Append(@, Entry("update", w.depth,
                                                min_history, max_history, 0))]
        fix == NeedsCorrection(min_history, max_history)
        max_fixed == IF fix THEN Corrected(min_history) ELSE max_history
        w1 == Format(w0, OptionsOf(value), min_history, max_fixed, now_clock)
        w2 == IF fix THEN SetValMax(w1, -max_fixed, now_clock) ELSE w1
        w3 == Graph(w2)
    IN IF w3.raised THEN Log(w3, "raise") ELSE Log(Log(w3, "draw"), "return")

Update(w, value, now_clock) ==
    LET min_history == -w.smin
        max_history == -w.smax
        w0 == [w EXCEPT !.log = Append(@, Entry("update", w.depth,
                                                min_history, max_history, 0))]
        fix == NeedsCorrection(min_history, max_history)
        max_fixed == IF fix THEN Corrected(min_history) ELSE max_history
        w1 == IF fix THEN SetValMax(w0, -max_fixed, now_clock) ELSE w0
        w2 == Format(w1, OptionsOf(value), min_history, max_fixed, now_clock)
        w3 == Graph(w2)
    IN IF w3.raised THEN Log(w3, "raise") ELSE Log(Log(w3, "draw"), "return")

\* lines 385-387.  Slider.reset calls set_val(valinit) when the value
\* differs from valinit.
Reset(w, now_clock) ==
    LET w1 == IF w.smax # -DEFAULT_HISTORY_MAX
              THEN SetValMax(w, -DEFAULT_HISTORY_MAX, now_clock) ELSE w
    IN IF w1.smin # DEFAULT_HISTORY_MIN
       THEN SetValMin(w1, DEFAULT_HISTORY_MIN, now_clock) ELSE w1

World ==
    [smax |-> slider_history_max, smin |-> slider_history_min,
     compress |-> stat.compress, relative |-> stat.relative,
     plot_range |-> stat.plot_range, timeline |-> stat.timeline,
     charge_data |-> stat.charge_data, title |-> title,
     trend_line |-> trend_line, error |-> error, raised |-> FALSE,
     log |-> <<>>, depth |-> 0]

Store(w) ==
    /\ slider_history_max' = w.smax
    /\ slider_history_min' = w.smin
    /\ stat' = [compress |-> w.compress, relative |-> w.relative,
                plot_range |-> w.plot_range, timeline |-> w.timeline,
                charge_data |-> w.charge_data]
    /\ title' = w.title
    /\ trend_line' = w.trend_line
    /\ error' = w.error
    /\ log' = w.log

Fixed == UNCHANGED <<raw, data_sheet, timeline, charge_data, current_charge,
                     timeline_zipped, idx>>

\* timestamp_now() at the time of an interaction
Now == {t \in {clock, clock + TENTH} : t <= Last(timeline) + MaxTicks * TENTH}

\* line 391: stat.graph(), outside any callback
FirstGraph ==
    /\ pc = "built"
    /\ LET w == Graph(World) IN
       /\ Store(w)
       /\ pc' = IF w.raised THEN "crashed" ELSE "show"
    /\ event' = [kind |-> "graph", value |-> 0]
    /\ UNCHANGED clock
    /\ Fixed

\* the user drags the 'From' slider; the widget clips the position to
\* [-PLOT_RANGE, 0] and calls set_val when the value changes
SlideFrom ==
    /\ pc = "show"
    /\ \E val \in DragVals, now \in Now :
          /\ -PLOT_RANGE <= val /\ val <= 0
          /\ val # slider_history_max
          /\ Store(SetValMax(World, val, now))
          /\ event' = [kind |-> "from", value |-> val]
          /\ clock' = now
    /\ UNCHANGED pc
    /\ Fixed

\* the user drags the 'To' slider
SlideTo ==
    /\ pc = "show"
    /\ \E val \in DragVals, now \in Now :
          /\ -PLOT_RANGE <= val /\ val <= 0
          /\ val # slider_history_min
          /\ Store(SetValMin(World, val, now))
          /\ event' = [kind |-> "to", value |-> val]
          /\ clock' = now
    /\ UNCHANGED pc
    /\ Fixed

\* the user clicks a radio button; update is called with its label
Switch ==
    /\ pc = "show"
    /\ \E label \in Labels, now \in Now :
          /\ Store([Update([World EXCEPT !.depth = 1], label, now)
                        EXCEPT !.depth = 0, !.raised = FALSE])
          /\ event' = [kind |-> "switch", value |-> 0]
          /\ clock' = now
    /\ UNCHANGED pc
    /\ Fixed

\* the user clicks the reset button
ResetClick ==
    /\ pc = "show"
    /\ \E now \in Now :
          /\ Store(Reset(World, now))
          /\ event' = [kind |-> "reset", value |-> 0]
          /\ clock' = now
    /\ UNCHANGED pc
    /\ Fixed

\* the samples the later stages work on: rows as lines 72-77 build them,
\* the compressed timeline of lines 84-93, and the BatteryStat object after
\* its constructor (line 390) has called format() with the defaults
Samples(n) ==
    {[i \in 1..Len(t) |-> <<t[i], c[i], s>>] :
        t \in {TimelineOf(g) : g \in [1..(n - 1) -> Gaps]},
        c \in [1..n -> Charges], s \in KnownStatus}

InitUI ==
    /\ pc = "built"
    /\ error = "none"
    /\ raw \in UNION {Samples(n) : n \in 1..MaxLen}
    /\ data_sheet = ParseSheet(raw)
    /\ timeline = Column(data_sheet, 1)
    /\ charge_data = Column(data_sheet, 2)
    /\ current_charge = Last(charge_data)
    /\ timeline_zipped = Zip(timeline)
    /\ idx = Len(timeline) + 1
    /\ slider_history_max = -DEFAULT_HISTORY_MAX
    /\ slider_history_min = DEFAULT_HISTORY_MIN
    /\ clock = Last(timeline)
    /\ LET w == Format([smax |-> -DEFAULT_HISTORY_MAX, smin |-> DEFAULT_HISTORY_MIN,
                        compress |-> TRUE, relative |-> TRUE,
                        plot_range |-> <<0, 0>>, timeline |-> <<>>,
                        charge_data |-> <<>>, title |-> ClearedTitle,
                        trend_line |-> FALSE, error |-> "none",
                        raised |-> FALSE, log |-> <<>>, depth |-> 0],
                       NoOptions, DEFAULT_HISTORY_MIN, DEFAULT_HISTORY_MAX,
                       Last(timeline))
       IN /\ stat = [compress |-> w.compress, relative |-> w.relative,
                     plot_range |-> w.plot_range, timeline |-> w.timeline,
                     charge_data |-> w.charge_data]
          /\ title = w.title
          /\ trend_line = w.trend_line
          /\ log = w.log
    /\ event = [kind |-> "init", value |-> 0]

NextUI == FirstGraph \/ SlideFrom \/ SlideTo \/ Switch \/ ResetClick

SpecUI == InitUI /\ [][NextUI]_vars

-----------------------------------------------------------------------------
(* Properties of ingestion and compression *)

KnownLines(lines) == SelectSeq(lines, LAMBDA line : line[3] # "unknown")

\* C4: once load has run on well-formed lines it has completed without an
\* error, and the working series is exactly the lines whose status is not
\* 'unknown', in input order.
C4_LoadKeepsKnownLines ==
    pc # "start" =>
        /\ pc = "loaded"
        /\ error = "none"
        /\ timeline = Column(KnownLines(raw), 1)
        /\ charge_data = Column(KnownLines(raw), 2)

IsLargeGap(t, j) == t[j] - t[j - 1] > MAX_GAP

RECURSIVE ShiftAfter(_, _)
ShiftAfter(t, i) ==
    IF i >= Len(t) THEN 0
    ELSE ShiftAfter(t, i + 1)
         + (IF IsLargeGap(t, i + 1) THEN t[i + 1] - t[i] - MAX_GAP ELSE 0)

\* C1: the compressed timeline has the length of the timeline and every
\* point is the original point plus, for every later gap above the
\* threshold, the excess of that gap over the threshold; so a large gap
\* becomes exactly the threshold, a small gap is kept and the last point
\* keeps its value.
C1_ZipIsCumulativeShift ==
    pc = "zipped" =>
        /\ Len(timeline_zipped) = Len(timeline)
        /\ \A i \in 1..Len(timeline) :
              timeline_zipped[i] = timeline[i] + ShiftAfter(timeline, i)
        /\ \A j \in 2..Len(timeline) :
              timeline_zipped[j] - timeline_zipped[j - 1] =
                  IF IsLargeGap(timeline, j) THEN MAX_GAP
                  ELSE timeline[j] - timeline[j - 1]
        /\ timeline # <<>> =>
              timeline_zipped[Len(timeline)] = timeline[Len(timeline)]

\* two large gaps compound on the first point; one of them is the 5 hour gap
C1_Witness ==
    /\ pc = "zipped"
    /\ Len(timeline) >= 3
    /\ Cardinality({j \in 2..Len(timeline) : timeline[j] - timeline[j - 1] = 18000}) = 2
    /\ timeline_zipped[1] = timeline[1] + 2 * 17280

\* C8: every consecutive gap of the compressed timeline is at most the
\* threshold, and compressing the compressed timeline again returns it
\* unchanged.
C8_ZipIdempotent ==
    pc = "zipped" =>
        /\ \A j \in 2..Len(timeline_zipped) :
              timeline_zipped[j] - timeline_zipped[j - 1] <= MAX_GAP
        /\ Zip(timeline_zipped) = timeline_zipped

C8_Witness ==
    /\ pc = "zipped"
    /\ \E j \in 2..Len(timeline) : IsLargeGap(timeline, j)
    /\ timeline_zipped # timeline
    /\ Zip(timeline_zipped) = timeline_zipped

-----------------------------------------------------------------------------
(* Properties of the handlers and of analyze *)

Running == pc \in {"show", "crashed"}

UserEvent == event.kind \in {"from", "to", "switch", "reset"}

Count(op) == Cardinality({i \in 1..Len(log) : log[i].op = op})

\* the log entry of the format call made by the update invocation entered
\* at log entry i
OwnFormat(i) ==
    CHOOSE j \in (i + 1)..Len(log) :
        /\ log[j].op = "format"
        /\ log[j].depth = log[i].depth
        /\ \A k \in (i + 1)..(j - 1) :
              ~ (log[k].op = "format" /\ log[k].depth = log[i].depth)

\* C2: every window the handlers compute and store as plot_range has
\* start < end.
C2_WindowStartBeforeEnd ==
    pc \in {"built", "show", "crashed"} =>
        /\ stat.plot_range[1] < stat.plot_range[2]
        /\ \A i \in 1..Len(log) :
              log[i].op = "format" => log[i].a < log[i].b

\* a slider event that asked for from >= to
C2_Witness ==
    /\ pc = "show"
    /\ event.kind \in {"from", "to"}
    /\ log[1].op = "update" /\ log[1].a >= log[1].b
    /\ stat.plot_range[1] < stat.plot_range[2]

NonDecreasing(q) == \A k \in 1..(Len(q) - 1) : q[k] <= q[k + 1]
NonIncreasing(q) == \A k \in 1..(Len(q) - 1) : q[k] >= q[k + 1]

\* C3: when the selected window holds fewer than three samples or its
\* charge values are neither non-decreasing nor non-increasing, analyze
\* shows the placeholder, computes no statistics, draws no trend line and
\* raises nothing.
C3_NoTrendForFewOrNotMonotonic ==
    (/\ Running
     /\ \/ Len(stat.timeline) < 3
        \/ ~ (NonDecreasing(stat.charge_data) \/ NonIncreasing(stat.charge_data)))
    => /\ title = Placeholder
       /\ ~ trend_line
       /\ error = "none"
       /\ pc # "crashed"

C3_Witness ==
    /\ pc = "show"
    /\ Len(stat.timeline) >= 3
    /\ ~ NonDecreasing(stat.charge_data)
    /\ ~ NonIncreasing(stat.charge_data)
    /\ title = Placeholder

FracEq(x, y) == x[1] * y[2] = y[1] * x[2]

\* remaining time expected from a charge level and the rate of the title
Remaining(level) == <<level * title.rate[2], Abs(title.rate[1])>>

\* C5: when analyze computes a trend, remaining is currentCharge / |rate|
\* if the last sample of the series is discharging, (capCharge -
\* currentCharge) / |rate| if it is charging, and absent for any other
\* status.
C5_RemainingFollowsLastStatus ==
    (Running /\ title.kind = "stats") =>
        LET status == Last(raw)[3] IN
        /\ status = "discharging" =>
              /\ title.left # None
              /\ FracEq(title.left, Remaining(current_charge))
        /\ status = "charging" =>
              /\ title.left # None
              /\ FracEq(title.left, Remaining(BATTERY_MAX_CHARGE - current_charge))
        /\ status \notin {"discharging", "charging"} => title.left = None

\* C6: when the window has at least three samples with monotonic charge
\* and equal first and last timestamps, analyze shows the placeholder and
\* raises nothing.
C6_ZeroRangeIsNoTrend ==
    (/\ Running
     /\ Len(stat.timeline) >= 3
     /\ NonDecreasing(stat.charge_data) \/ NonIncreasing(stat.charge_data)
     /\ Last(stat.timeline) = stat.timeline[1])
    => /\ title = Placeholder
       /\ error = "none"
       /\ pc # "crashed"

\* C7 as stated: an update that reads from >= to keeps the requested start
\* (now - toHours) and forces the end to start + 0.1 hour.
C7_EndIsAdjusted ==
    pc = "show" =>
        \A i \in 1..Len(log) :
            (log[i].op = "update" /\ log[i].a >= log[i].b) =>
                LET f == log[OwnFormat(i)] IN
                /\ f.a = f.c - log[i].b * TENTH
                /\ f.b = f.a + MIN_WINDOW * TENTH

\* C7 as amended: an update that reads from >= to keeps the requested end
\* (now - fromHours) and forces the start to end - 0.1 hour; the start is
\* the bound that is adjusted, and the 'From' slider is set to it.
C7_StartIsAdjusted ==
    pc = "show" =>
        \A i \in 1..Len(log) :
            (log[i].op = "update" /\ log[i].a >= log[i].b) =>
                LET f == log[OwnFormat(i)] IN
                /\ f.b = f.c - log[i].a * TENTH
                /\ f.a = f.b - MIN_WINDOW * TENTH
                /\ (i = 1 /\ event.kind \in {"from", "to"}) =>
                      /\ stat.plot_range = <<f.a, f.b>>
                      /\ slider_history_max = -(log[i].a + MIN_WINDOW)

C7_Witness ==
    /\ pc = "show"
    /\ event.kind \in {"from", "to"}
    /\ log[1].op = "update" /\ log[1].a > log[1].b
    /\ stat.plot_range[2] - stat.plot_range[1] = MIN_WINDOW * TENTH
    /\ ~ stat.compress

\* C9 as stated: every user interaction enters update exactly once and
\* runs exactly one recompute, and update is never entered while another
\* invocation is in progress.
C9_OneRecomputePerInteraction ==
    UserEvent =>
        /\ Count("update") = 1
        /\ Count("format") = 1
        /\ \A i \in 1..Len(log) : log[i].depth <= 1

Recompute(j, tail) ==
    /\ j + Len(tail) <= Len(log)
    /\ \A k \in 1..Len(tail) :
          /\ log[j + k].op = tail[k]
          /\ log[j + k].depth = log[j].depth

\* C9 as amended: a user interaction is handled synchronously and runs
\* between zero and three recomputes: a mode switch one, a slider drag one
\* or two, reset up to three.  update is entered again only from its own
\* set_val call, straight after the outer invocation was entered and
\* before that invocation formats, never deeper than once; a recompute
\* that has started runs to its end (or raises) before update is entered
\* again or another recompute starts.
C9_RecomputesNeverOverlap ==
    UserEvent =>
        /\ Count("format") = Count("update")
        /\ event.kind = "switch" => Count("update") = 1
        /\ event.kind \in {"from", "to"} => Count("update") \in {1, 2}
        /\ event.kind = "reset" => Count("update") \in 0..3
        /\ \A i \in 1..Len(log) :
              /\ log[i].depth \in {1, 2}
              /\ (log[i].op = "update" /\ log[i].depth = 2) =>
                    /\ log[i - 1].op = "update"
                    /\ log[i - 1].depth = 1
                    /\ log[i - 1].a >= log[i - 1].b
              /\ log[i].op = "format" =>
                    \/ Recompute(i, <<"analyze", "render", "draw", "return">>)
                    \/ Recompute(i, <<"analyze", "raise">>)

\* a slider drag that made update call itself
C9_Witness ==
    /\ pc = "show"
    /\ event.kind = "to"
    /\ Count("update") = 2
    /\ Count("format") = 2
    /\ log[2].op = "update" /\ log[2].depth = 2

\* C10: once the reset handler and the update callbacks it triggers have
\* finished, both sliders hold their initial values and the window is the
\* default window of 12 hours.
C10_ResetRestoresDefaults ==
    event.kind = "reset" =>
        /\ slider_history_max = -DEFAULT_HISTORY_MAX
        /\ slider_history_min = DEFAULT_HISTORY_MIN
        /\ stat.plot_range[2] - stat.plot_range[1] =
              (DEFAULT_HISTORY_MAX - DEFAULT_HISTORY_MIN) * TENTH

====
